---- MODULE Spec2Model ----
(***************************************************************************)
(* Model of the weather agent: the forecast aggregation of                 *)
(* WeatherService (services/weather_service.py), the two tool entry points *)
(* (tools.py) and the lifecycle hooks (lifecycle.py).                      *)
(*                                                                         *)
(* Time is kept in epoch seconds as the provider sends it (item['dt']).    *)
(* A calendar date is modelled by its day ordinal in the host's local      *)
(* time zone; date.isoformat() is injective and order preserving on it.    *)
(***************************************************************************)
EXTENDS Integers, Sequences, FiniteSets, TLC

VARIABLES
    tz,          \* the host process's local UTC offset, in seconds
    raw,         \* data['list'] handed to _format_forecast_data
    days,        \* the days argument of _format_forecast_data
    aggPc,       \* "input": not yet formatted, "done": forecasts computed
    forecasts,   \* the "forecasts" entry of the returned dictionary
    agent,       \* the host's agent specific state (the key-value store)
    session,     \* WeatherService.session: 0 is None, else the session's id
    sessions,    \* the ClientSession objects created so far: id -> closed
    calls,       \* the tool invocations: one record per caller slot
    closeLog,    \* one entry per WeatherService.close() call made, in order
    closeRaised, \* whether a close() call raised
    processed    \* the number of weather requests answered with data so far

aggVars == <<tz, raw, days, aggPc, forecasts>>

toolVars == <<agent, session, sessions, calls, closeLog, closeRaised, processed>>

vars == <<tz, raw, days, aggPc, forecasts, agent, session, sessions, calls, closeLog,
          closeRaised, processed>>

----------------------------------------------------------------------------
(* Bounds of the model *)

MaxStride == 2
MaxTz == 2
MaxTempMul == 2
TempMod == 5
TempShift == 2
MaxCalls == 2
MaxCloses == 2
MaxRequests == 2

(* Program constants *)

SamplesPerDay == 8
MaxSamples == 40
MinDays == 1
MaxDays == 5
NoonHour == 12
NoDate == -1

----------------------------------------------------------------------------
(* datetime.fromtimestamp(dt) in the host's local zone *)

LocalDate(dt) == (dt + tz) \div 86400

LocalHour(dt) == ((dt + tz) % 86400) \div 3600

Abs(x) == IF x < 0 THEN -x ELSE x

(* Python's seq[:k] *)
Take(seq, k) ==
    IF k >= 0
    THEN SubSeq(seq, 1, IF k < Len(seq) THEN k ELSE Len(seq))
    ELSE SubSeq(seq, 1, IF Len(seq) + k > 0 THEN Len(seq) + k ELSE 0)

(* Python's min(values) and max(values) over a non-empty list: the first    *)
(* element is the candidate, replaced by each later strictly smaller        *)
(* (larger) one.                                                            *)
RECURSIVE MinFrom(_, _, _)
MinFrom(values, i, best) ==
    IF i > Len(values) THEN best
    ELSE MinFrom(values, i + 1, IF values[i] < best THEN values[i] ELSE best)

PyMin(values) == MinFrom(values, 2, values[1])

RECURSIVE MaxFrom(_, _, _)
MaxFrom(values, i, best) ==
    IF i > Len(values) THEN best
    ELSE MaxFrom(values, i + 1, IF values[i] > best THEN values[i] ELSE best)

PyMaxAsMin(values) == MinFrom(values, 2, values[1])

PyMax(values) == MaxFrom(values, 2, values[1])

(* key=lambda x: abs(datetime.fromtimestamp(x['dt']).hour - 12) *)
NoonKey(item) == Abs(LocalHour(item.dt) - NoonHour)

(* min(daily_data, key=...): the index of the first item of least key *)
RECURSIVE NoonFrom(_, _, _)
NoonFrom(daily_data, i, best) ==
    IF i > Len(daily_data) THEN best
    ELSE NoonFrom(daily_data, i + 1,
                  IF NoonKey(daily_data[i]) < NoonKey(daily_data[best])
                  THEN i ELSE best)

NoonIndexLast(daily_data) ==
    CHOOSE i \in 1..Len(daily_data) :
        \A j \in 1..Len(daily_data) :
            \/ NoonKey(daily_data[i]) < NoonKey(daily_data[j])
            \/ NoonKey(daily_data[i]) = NoonKey(daily_data[j]) /\ i >= j

NoonIndex(daily_data) == NoonFrom(daily_data, 2, 1)

(* temps = [item['main']['temp'] for item in daily_data] *)
Temps(daily_data) == [i \in 1..Len(daily_data) |-> daily_data[i].temp]

(* noon_forecast.get('wind', {}).get('speed', 0) and .get('pop', 0) * 100; *)
(* pop is kept in hundredths, so pop * 100 is the percentage.              *)
WindSpeed(item) == IF item.has_wind THEN item.wind_speed ELSE 0

PrecipitationProbability(item) == IF item.has_pop THEN item.pop ELSE 0

AggregateDailyForecast(daily_data) ==
    IF daily_data = << >> THEN << >>
    ELSE LET noon_forecast == daily_data[NoonIndex(daily_data)]
         IN  [date |-> LocalDate(daily_data[1].dt),
              temperature_min |-> PyMin(Temps(daily_data)),
              temperature_max |-> PyMax(Temps(daily_data)),
              description |-> noon_forecast.description,
              humidity |-> noon_forecast.humidity,
              wind_speed |-> WindSpeed(noon_forecast),
              precipitation_probability |-> PrecipitationProbability(noon_forecast)]

(* if daily_data: forecasts.append(self._aggregate_daily_forecast(daily_data)) *)
Flush(fc, daily_data) ==
    IF daily_data # << >> THEN Append(fc, AggregateDailyForecast(daily_data)) ELSE fc

(* if current_date != forecast_date *)
NewGroup(current_date, forecast_date) == current_date # forecast_date

(* the for loop of _format_forecast_data and the flush after it *)
RECURSIVE GroupLoop(_, _, _, _)
GroupLoop(items, current_date, daily_data, fc) ==
    IF items = << >> THEN Flush(fc, daily_data)
    ELSE LET item == Head(items)
             forecast_date == LocalDate(item.dt)
         IN  IF NewGroup(current_date, forecast_date)
             THEN GroupLoop(Tail(items), forecast_date, <<item>>, Flush(fc, daily_data))
             ELSE GroupLoop(Tail(items), current_date, Append(daily_data, item), fc)

(* data['list'][:days * 8] *)
Slice(list, d) == Take(list, d * SamplesPerDay)

TruncateNone(fc, d) == fc

(* forecasts[:days] *)
Truncate(fc, d) == Take(fc, d)

FormatForecastData(list, d) ==
    Truncate(GroupLoop(Slice(list, d), NoDate, << >>, << >>), d)

----------------------------------------------------------------------------
(* The provider's samples: 3-hour intervals, chronological. *)

SampleAt(i, start, stride, mul) ==
    [dt |-> 10800 * (start + (i - 1) * stride),
     temp |-> ((i * mul) % TempMod) - TempShift,
     description |-> i,
     humidity |-> (7 * i) % 101,
     has_wind |-> i % 3 # 0,
     wind_speed |-> i % 4,
     has_pop |-> i % 2 = 0,
     pop |-> (15 * i) % 101]

RawLists ==
    { [i \in 1..n |-> SampleAt(i, start, stride, mul)] :
        n \in 1..MaxSamples, start \in 0..(SamplesPerDay - 1),
        stride \in 1..MaxStride, mul \in 0..MaxTempMul }

AggInit ==
    /\ tz \in {3600 * h : h \in 0..MaxTz}
    /\ raw \in RawLists
    /\ days \in MinDays..MaxDays
    /\ aggPc = "input"
    /\ forecasts = << >>
    /\ agent = [weather_service |-> FALSE, initialized_at |-> "",
                has_requests_count |-> FALSE, weather_requests_count |-> 0]
    /\ session = 0
    /\ sessions = << >>
    /\ calls = << >>
    /\ closeLog = << >>
    /\ closeRaised = FALSE
    /\ processed = 0

Format ==
    /\ aggPc = "input"
    /\ forecasts' = FormatForecastData(raw, days)
    /\ aggPc' = "done"
    /\ UNCHANGED <<tz, raw, days>>
    /\ UNCHANGED toolVars

AggNext == Format

SpecAgg == AggInit /\ [][AggNext]_vars

----------------------------------------------------------------------------
(* WeatherService: the session, the two requests and their failures.       *)

Exc(type, text, arg) == [type |-> type, text |-> text, arg |-> arg]

NoExc == Exc("none", "", "")

Raised(e) == [raised |-> TRUE, exc |-> e]

Returned(data) == [raised |-> FALSE, data |-> data]

GetSessionAlwaysNew(s, ss) == TRUE

(* if self.session is None or self.session.closed *)
GetSessionNeedsNew(s, ss) == s = 0 \/ ss[s]

CloseGuardNoNoneCheck(s, ss) == s = 0 \/ ~ss[s]

(* if self.session and not self.session.closed *)
CloseGuard(s, ss) == s # 0 /\ ~ss[s]

(* What the provider answers, or how the transport fails.  A body is        *)
(* "json" (decodes, complete), "incomplete" (decodes, a read key missing),  *)
(* "bad_json" (json.JSONDecodeError, a ValueError) or "not_json"            *)
(* (aiohttp.ContentTypeError, a ClientError).                               *)
Response(status, body, has_message, message) ==
    [kind |-> "response", status |-> status, body |-> body,
     has_message |-> has_message, message |-> message]

NoUpstream == [kind |-> "none", status |-> 0, body |-> "", has_message |-> FALSE,
               message |-> ""]

ClientError == [kind |-> "client_error", status |-> 0, body |-> "",
                has_message |-> FALSE, message |-> "Cannot connect to host"]

Timeout == [kind |-> "timeout", status |-> 0, body |-> "", has_message |-> FALSE,
            message |-> ""]

Upstreams ==
    {Response(200, b, FALSE, "") : b \in {"json", "incomplete", "bad_json", "not_json"}}
    \cup {Response(404, "json", TRUE, "city not found")}
    \cup {Response(500, "json", TRUE, "Internal error"), Response(500, "json", FALSE, ""),
          Response(500, "bad_json", FALSE, ""), Response(500, "not_json", FALSE, ""),
          Response(401, "json", TRUE, "Invalid API key")}
    \cup {ClientError, Timeout}

PlainUpstreams ==
    {Response(200, "json", FALSE, ""), Response(404, "json", TRUE, "city not found"),
     ClientError}

(* the provider's forecast feed: 3-hour samples, from 09:00 of day 0 *)
ProviderFeed == [i \in 1..MaxSamples |-> SampleAt(i, 3, 1, 2)]

(* "cnt": min(days * 8, 40) *)
Cnt(d) == IF d * SamplesPerDay < MaxSamples THEN d * SamplesPerDay ELSE MaxSamples

CurrentPayload(location) ==
    [name |-> location, country |-> "XX", temp |-> 21, feels_like |-> 20,
     humidity |-> 40, pressure |-> 1013, description |-> "clear sky",
     has_wind |-> TRUE, wind_speed |-> 3, wind_deg |-> 180, visibility |-> 10000]

(* _format_current_weather; visibility is kept in metres, the code's        *)
(* kilometres times 1000.                                                   *)
FormatCurrentWeather(data) ==
    [location |-> <<data.name, data.country>>,
     temperature |-> data.temp,
     feels_like |-> data.feels_like,
     humidity |-> data.humidity,
     pressure |-> data.pressure,
     description |-> data.description,
     wind_speed |-> IF data.has_wind THEN data.wind_speed ELSE 0,
     wind_direction |-> IF data.has_wind THEN data.wind_deg ELSE 0,
     visibility_m |-> data.visibility]

ForecastPayload(location, d) ==
    [city |-> [name |-> location, country |-> "XX"], list |-> Take(ProviderFeed, Cnt(d))]

FormatForecastResult(data, d) ==
    [location |-> <<data.city.name, data.city.country>>,
     forecasts |-> FormatForecastData(data.list, d)]

NotFoundAsGeneric(location) == Exc("Exception", "Weather API error", "city not found")

(* raise ValueError(f"Location '{location}' not found") *)
NotFound(location) == Exc("ValueError", "Location not found", location)

(* await response.json() and what the caller of it then raises; a          *)
(* ClientError is caught by the except clause and raised again as           *)
(* Exception(f"Network error: {e}").                                        *)
BodyFailure(body) ==
    CASE body = "not_json" -> Exc("Exception", "Network error", "ContentTypeError")
      [] body = "bad_json" -> Exc("JSONDecodeError", "Expecting value", "")
      [] OTHER -> Exc("KeyError", "KeyError", "name")

(* the body of the try statement of get_current_weather and of             *)
(* get_weather_forecast, and its except clause                              *)
ServiceCall(tool, location, d, up) ==
    CASE up.kind = "client_error" ->
            Raised(Exc("Exception", "Network error", up.message))
      [] up.kind = "timeout" -> Raised(Exc("TimeoutError", "", ""))
      [] up.kind = "response" /\ up.status = 200 ->
            IF up.body = "json"
            THEN Returned(IF tool = "current"
                          THEN FormatCurrentWeather(CurrentPayload(location))
                          ELSE FormatForecastResult(ForecastPayload(location, d), d))
            ELSE Raised(BodyFailure(up.body))
      [] up.kind = "response" /\ up.status = 404 -> Raised(NotFound(location))
      [] OTHER ->
            IF up.body \in {"json", "incomplete"}
            THEN Raised(Exc("Exception", "Weather API error",
                            IF up.has_message THEN up.message ELSE "Unknown error"))
            ELSE Raised(BodyFailure(up.body))

----------------------------------------------------------------------------
(* tools.py: the tool entry points.                                        *)

Message(prefix, text, arg) == [prefix |-> prefix, text |-> text, arg |-> arg]

ErrorResult(message) == [status |-> "error", message |-> message]

NoResult == [status |-> "none"]

IntDays(n) == [int |-> TRUE, val |-> n]

MalformedDays == [int |-> FALSE, val |-> 0]

(* _create_weather_summary and _create_forecast_summary: a text made of    *)
(* the data's fields                                                        *)
Summary(tool, data) ==
    IF tool = "current"
    THEN [of |-> data.location, temperature |-> data.temperature, lines |-> 5]
    ELSE [of |-> data.location, temperature |-> 0, lines |-> Len(data.forecasts)]

SuccessResult(tool, data) ==
    [status |-> "success", location |-> data.location,
     summary |-> Summary(tool, data), data |-> data]

(* except ValueError / except Exception of the entry points;               *)
(* json.JSONDecodeError is a subclass of ValueError.                        *)
HandleException(e) ==
    IF e.type \in {"ValueError", "JSONDecodeError"}
    THEN ErrorResult(Message("Location error", e.text, e.arg))
    ELSE ErrorResult(Message("Weather service error", e.text, e.arg))

IdleCall ==
    [pc |-> "idle", tool |-> "none", location |-> "", days |-> IntDays(5),
     save_to_file |-> FALSE, ctx |-> "none", session |-> 0, requests |-> 0,
     created |-> FALSE,
     writes |-> 0, upstream |-> NoUpstream, save |-> "none", result |-> NoResult,
     escaped |-> NoExc]

Return(call, result) == [call EXCEPT !.pc = "returned", !.result = result]

Escape(call, e) == [call EXCEPT !.pc = "raised", !.escaped = e]

DaysInRangeUnchecked(d) == TRUE

(* 1 <= days <= 5 *)
DaysInRange(d) == MinDays <= d /\ d <= MaxDays

FailCallRetry(call, e) == [call EXCEPT !.requests = call.requests + 1]

(* the fetch raised: the except clauses return the error result *)
FailCall(call, e) == Return(call, HandleException(e))

SaveFailureAsError(result, artifact) ==
    IF artifact.status = "error" THEN ErrorResult(artifact.message)
    ELSE [status |-> result.status, location |-> result.location,
          summary |-> result.summary, data |-> result.data, artifact |-> artifact]

(* result["artifact"] = artifact_result *)
WithArtifact(result, artifact) ==
    [status |-> result.status, location |-> result.location,
     summary |-> result.summary, data |-> result.data, artifact |-> artifact]

SaveOutcomes == {"saved", "saved_no_status", "status_error", "raised"}

(* _save_weather_artifact: the dictionary it returns *)
SaveArtifactResult(outcome) ==
    CASE outcome = "raised" ->
            [status |-> "error", filename |-> "",
             message |-> Message("Failed to save artifact", "save failed", "")]
      [] outcome = "status_error" ->
            [status |-> "error", filename |-> "report.json", message |-> Message("", "", "")]
      [] OTHER ->
            [status |-> "success", filename |-> "report.json", message |-> Message("", "", "")]

Contexts == {"none", "no_invocation_context", "no_agent", "no_host_component", "ok"}

(* The entry point up to its first suspension: the checks in the order of  *)
(* the code, then _get_session() and the GET request.                      *)
Invoke(c, tool, location, d, save_to_file, ctx) ==
    /\ calls[c].pc = "idle"
    /\ processed < MaxRequests
    /\ LET call == [IdleCall EXCEPT !.tool = tool, !.location = location, !.days = d,
                                    !.save_to_file = save_to_file, !.ctx = ctx]
           early(result) ==
               /\ calls' = [calls EXCEPT ![c] = Return(call, result)]
               /\ UNCHANGED <<session, sessions>>
       IN  IF ctx = "none"
           THEN early(ErrorResult(Message("", "Tool context is required for weather operations", "")))
           ELSE IF tool = "forecast" /\ ~d.int
           THEN /\ calls' = [calls EXCEPT ![c] = Escape(call, Exc("TypeError", "not supported between instances", ""))]
                /\ UNCHANGED <<session, sessions>>
           ELSE IF tool = "forecast" /\ ~DaysInRange(d.val)
           THEN early(ErrorResult(Message("", "Days must be between 1 and 5", "")))
           ELSE IF ctx = "no_invocation_context"
           THEN early(HandleException(Exc("AttributeError", "_invocation_context", "")))
           ELSE IF ctx \in {"no_agent", "no_host_component"}
           THEN early(ErrorResult(Message("", "Could not access agent host component", "")))
           ELSE IF ~agent.weather_service
           THEN early(ErrorResult(Message("", "Weather service not initialized", "")))
           ELSE LET new == GetSessionNeedsNew(session, sessions)
                    used == IF new THEN Len(sessions) + 1 ELSE session
                IN  /\ sessions' = IF new THEN Append(sessions, FALSE) ELSE sessions
                    /\ session' = used
                    /\ calls' = [calls EXCEPT ![c] =
                                   [call EXCEPT !.pc = "awaiting", !.session = used,
                                                !.created = new,
                                                !.requests = call.requests + 1]]
    /\ UNCHANGED <<agent, closeLog, closeRaised, processed>>

(* What the entry points do to the agent specific state once the weather   *)
(* data is fetched: they read "weather_service" and write nothing, so       *)
(* "weather_requests_count" stays as initialize_weather_agent set it.       *)
RequestsCounted(state, raised) == state

(* The response (or the transport's failure) arrives: the rest of the      *)
(* service call, the summary, the result, and the start of the artifact    *)
(* write when save_to_file is set.                                         *)
Respond(c, up) ==
    /\ calls[c].pc = "awaiting"
    /\ LET call == [calls[c] EXCEPT !.upstream = up]
           out == ServiceCall(call.tool, call.location, call.days.val, up)
       IN  /\ calls' = [calls EXCEPT ![c] =
                IF out.raised THEN FailCall(call, out.exc)
                ELSE IF call.save_to_file
                THEN [call EXCEPT !.pc = "saving", !.writes = call.writes + 1,
                                  !.result = SuccessResult(call.tool, out.data)]
                ELSE Return(call, SuccessResult(call.tool, out.data))]
           /\ processed' = IF out.raised THEN processed ELSE processed + 1
           /\ agent' = RequestsCounted(agent, out.raised)
    /\ UNCHANGED <<session, sessions, closeLog, closeRaised>>

(* save_artifact_with_metadata returns or raises *)
SaveDone(c, outcome) ==
    /\ calls[c].pc = "saving"
    /\ calls' = [calls EXCEPT ![c] =
                   Return([calls[c] EXCEPT !.save = outcome],
                          WithArtifact(calls[c].result, SaveArtifactResult(outcome)))]
    /\ UNCHANGED <<agent, session, sessions, closeLog, closeRaised, processed>>

(* the caller takes the result (or the exception): the slot is free again *)
Collect(c) ==
    /\ calls[c].pc \in {"returned", "raised"}
    /\ calls' = [calls EXCEPT ![c] = IdleCall]
    /\ UNCHANGED <<agent, session, sessions, closeLog, closeRaised, processed>>

----------------------------------------------------------------------------
(* lifecycle.py *)

NoAgentState ==
    [weather_service |-> FALSE, initialized_at |-> "", has_requests_count |-> FALSE,
     weather_requests_count |-> 0]

(* initialize_weather_agent: a new WeatherService, whose session is None *)
Initialize ==
    /\ ~agent.weather_service
    /\ agent' = [weather_service |-> TRUE, initialized_at |-> "2024-01-01T00:00:00Z",
                 has_requests_count |-> TRUE, weather_requests_count |-> 0]
    /\ session' = 0
    /\ UNCHANGED <<sessions, calls, closeLog, closeRaised, processed>>

(* host_component.get_agent_specific_state("weather_requests_count", 0) *)
RequestCount(state) ==
    IF state.has_requests_count THEN state.weather_requests_count ELSE 0

SessionOpen == session # 0 /\ ~sessions[session]

(* cleanup_weather_agent: WeatherService.close() on the stored service; an  *)
(* exception of it is caught and logged by cleanup_async.                   *)
Cleanup ==
    /\ agent.weather_service
    /\ Len(closeLog) < MaxCloses
    /\ closeLog' = Append(closeLog, [open |-> SessionOpen, created |-> Len(sessions),
                                     request_count |-> RequestCount(agent),
                                     processed |-> processed])
    /\ IF CloseGuard(session, sessions)
       THEN IF session = 0
            THEN closeRaised' = TRUE /\ UNCHANGED sessions
            ELSE sessions' = [sessions EXCEPT ![session] = TRUE] /\ UNCHANGED closeRaised
       ELSE UNCHANGED <<sessions, closeRaised>>
    /\ UNCHANGED <<agent, session, calls, processed>>

----------------------------------------------------------------------------
(* Specifications *)

Locations == {"Paris", "Nowhereville"}

DaysArgs == {IntDays(0), IntDays(1), IntDays(5), IntDays(6), MalformedDays}

AggIdle ==
    /\ tz = 0
    /\ raw = << >>
    /\ days = MaxDays
    /\ aggPc = "idle"
    /\ forecasts = << >>

ToolIdle(slots) ==
    /\ agent = NoAgentState
    /\ session = 0
    /\ sessions = << >>
    /\ calls = [c \in slots |-> IdleCall]
    /\ closeLog = << >>
    /\ closeRaised = FALSE
    /\ processed = 0

(* One caller, every argument and every upstream outcome. *)
Init == AggIdle /\ ToolIdle({1})

InvokeCurrent(c) ==
    \E location \in Locations, save_to_file \in BOOLEAN, ctx \in Contexts :
        Invoke(c, "current", location, IntDays(MaxDays), save_to_file, ctx)

InvokeForecast(c) ==
    \E location \in Locations, d \in DaysArgs, save_to_file \in BOOLEAN, ctx \in Contexts :
        Invoke(c, "forecast", location, d, save_to_file, ctx)

DoInitialize == Initialize /\ UNCHANGED aggVars

DoCleanup == Cleanup /\ UNCHANGED aggVars

DoInvokeCurrent == \E c \in DOMAIN calls : InvokeCurrent(c) /\ UNCHANGED aggVars

DoInvokeForecast == \E c \in DOMAIN calls : InvokeForecast(c) /\ UNCHANGED aggVars

DoRespond == \E c \in DOMAIN calls, up \in Upstreams : Respond(c, up) /\ UNCHANGED aggVars

DoSaveDone ==
    \E c \in DOMAIN calls, outcome \in SaveOutcomes : SaveDone(c, outcome) /\ UNCHANGED aggVars

DoCollect == \E c \in DOMAIN calls : Collect(c) /\ UNCHANGED aggVars

Next ==
    \/ DoInitialize
    \/ DoCleanup
    \/ DoInvokeCurrent
    \/ DoInvokeForecast
    \/ DoRespond
    \/ DoSaveDone
    \/ DoCollect

Spec == Init /\ [][Next]_vars

(* Overlapping callers on one service, well-formed arguments. *)
SvcInit == AggIdle /\ ToolIdle(1..MaxCalls)

SvcInvoke(c) ==
    \E tool \in {"current", "forecast"} :
        Invoke(c, tool, "Paris", IntDays(MinDays), FALSE, "ok")

DoSvcInvoke == \E c \in DOMAIN calls : SvcInvoke(c) /\ UNCHANGED aggVars

DoSvcRespond ==
    \E c \in DOMAIN calls, up \in PlainUpstreams : Respond(c, up) /\ UNCHANGED aggVars

SvcNext ==
    \/ DoInitialize
    \/ DoCleanup
    \/ DoSvcInvoke
    \/ DoSvcRespond
    \/ DoCollect

SpecSvc == SvcInit /\ [][SvcNext]_vars

----------------------------------------------------------------------------
(* Reference notions the aggregation claims are stated with. *)

Least(S) == CHOOSE x \in S : \A y \in S : x <= y

Greatest(S) == CHOOSE x \in S : \A y \in S : x >= y

RawDates == {LocalDate(raw[i].dt) : i \in 1..Len(raw)}

(* the indices of the raw samples of calendar date d *)
DayIndices(d) == {i \in 1..Len(raw) : LocalDate(raw[i].dt) = d}

(* those of them the aggregation reads: data['list'][:days * 8] *)
GroupIndices(d) == {i \in DayIndices(d) : i <= days * SamplesPerDay}

HoursOf(d) == [k \in 1..Cardinality(GroupIndices(d)) |->
                 LocalHour(raw[Least(GroupIndices(d)) + k - 1].dt)]

(* the sample of the group closest to noon, the earliest one among equals *)
Representative(d) ==
    CHOOSE i \in GroupIndices(d) :
        \A j \in GroupIndices(d) :
            \/ NoonKey(raw[i]) < NoonKey(raw[j])
            \/ NoonKey(raw[i]) = NoonKey(raw[j]) /\ i <= j

(* C1: formatting a non-empty chronological list of the provider's 3-hour  *)
(* samples that spans D calendar dates with days in 1..5 returns exactly   *)
(* min(D, days) daily records, with strictly increasing (hence unique)     *)
(* dates; days = 5 over 3 dates gives 3 records.                           *)
C1_RecordCount ==
    aggPc = "done" =>
        /\ Len(forecasts) =
             (IF Cardinality(RawDates) < days THEN Cardinality(RawDates) ELSE days)
        /\ \A i \in 1..Len(forecasts) : forecasts[i].date \in RawDates
        /\ \A i, j \in 1..Len(forecasts) :
             i < j => forecasts[i].date < forecasts[j].date
        /\ (days = 5 /\ Cardinality(RawDates) = 3) => Len(forecasts) = 3

C1_Witness ==
    /\ aggPc = "done"
    /\ days = 5
    /\ Cardinality(RawDates) = 3
    /\ Len(forecasts) = 3

(* C9: the description, humidity, wind and precipitation probability of a  *)
(* daily record are those of the sample of its group that minimises        *)
(* abs(local hour - 12), the first such sample in the original order; a    *)
(* group at hours 6, 12, 18 is represented by its sample at 12.            *)
C9_Representative ==
    aggPc = "done" =>
        \A k \in 1..Len(forecasts) :
            LET d == forecasts[k].date
                rep == raw[Representative(d)]
            IN  /\ GroupIndices(d) # {}
                /\ forecasts[k].description = rep.description
                /\ forecasts[k].humidity = rep.humidity
                /\ forecasts[k].wind_speed = (IF rep.has_wind THEN rep.wind_speed ELSE 0)
                /\ forecasts[k].precipitation_probability =
                     (IF rep.has_pop THEN rep.pop ELSE 0)
                /\ HoursOf(d) = <<6, 12, 18>> =>
                     forecasts[k].description = raw[Least(GroupIndices(d)) + 1].description

C9_Witness ==
    /\ aggPc = "done"
    /\ Len(forecasts) >= 1
    /\ HoursOf(forecasts[1].date) = <<6, 12, 18>>
    /\ LocalHour(raw[forecasts[1].description].dt) = 12

(* C10: every daily record has temperature_min <= temperature_max; the two *)
(* are the least and greatest temperature of the samples grouped into the  *)
(* record, and lie within the least and greatest temperature of that       *)
(* calendar day's raw samples.                                             *)
C10_TemperatureRange ==
    aggPc = "done" =>
        \A k \in 1..Len(forecasts) :
            LET d == forecasts[k].date
                grouped == {raw[i].temp : i \in GroupIndices(d)}
                ofDay == {raw[i].temp : i \in DayIndices(d)}
            IN  /\ forecasts[k].temperature_min <= forecasts[k].temperature_max
                /\ forecasts[k].temperature_min = Least(grouped)
                /\ forecasts[k].temperature_max = Greatest(grouped)
                /\ Least(ofDay) <= forecasts[k].temperature_min
                /\ forecasts[k].temperature_max <= Greatest(ofDay)

C10_Witness ==
    /\ aggPc = "done"
    /\ Len(raw) > days * SamplesPerDay
    /\ Len(forecasts) = days
    /\ \E k \in 1..Len(forecasts) :
          /\ forecasts[k].temperature_min < forecasts[k].temperature_max
          /\ forecasts[k].temperature_min < raw[Least(DayIndices(forecasts[k].date))].temp
          /\ Cardinality(DayIndices(forecasts[k].date)) < SamplesPerDay

----------------------------------------------------------------------------
(* Claims about the tool entry points and the service. *)

Slots == DOMAIN calls

Finished(c) == calls[c].pc \in {"returned", "raised"}

OutOfRange(c) ==
    /\ calls[c].tool = "forecast"
    /\ calls[c].days.int
    /\ (calls[c].days.val < 1 \/ calls[c].days.val > 5)

(* what the service call of a slot gave, once its response has arrived *)
Fetched(c) ==
    ServiceCall(calls[c].tool, calls[c].location, calls[c].days.val, calls[c].upstream)

Answered(c) == calls[c].upstream.kind # "none"

(* C2: every invocation of either entry point, whatever its arguments and  *)
(* the upstream outcome, returns a result tagged "success" or "error"; no   *)
(* exception escapes the entry point.                                       *)
C2_NoExceptionEscapes ==
    \A c \in Slots :
        /\ calls[c].pc # "raised"
        /\ calls[c].pc = "returned" => calls[c].result.status \in {"success", "error"}

(* C3 as claimed: a forecast invocation with days outside 1..5 returns an   *)
(* error result with the validation message, and creates no session and     *)
(* issues no request.                                                       *)
C3_ValidationMessageAlways ==
    \A c \in Slots :
        (Finished(c) /\ OutOfRange(c)) =>
            /\ calls[c].pc = "returned"
            /\ calls[c].result =
                 ErrorResult(Message("", "Days must be between 1 and 5", ""))
            /\ calls[c].requests = 0
            /\ calls[c].session = 0
            /\ ~calls[c].created

(* C3 amended: a forecast invocation with days outside 1..5 returns an      *)
(* error result, creates no session and issues no request; the result       *)
(* carries the validation message when a tool context was passed, and the   *)
(* tool-context-required message when none was.                             *)
C3_RejectedBeforeNetwork ==
    \A c \in Slots :
        OutOfRange(c) =>
            /\ calls[c].pc = "returned"
            /\ calls[c].result.status = "error"
            /\ calls[c].ctx # "none" =>
                 calls[c].result =
                   ErrorResult(Message("", "Days must be between 1 and 5", ""))
            /\ calls[c].ctx = "none" =>
                 calls[c].result =
                   ErrorResult(Message("", "Tool context is required for weather operations", ""))
            /\ calls[c].requests = 0
            /\ calls[c].session = 0
            /\ ~calls[c].created
            /\ calls[c].upstream = NoUpstream

C3_Witness ==
    \E c \in Slots :
        /\ calls[c].pc = "returned"
        /\ calls[c].tool = "forecast"
        /\ calls[c].days = IntDays(6)
        /\ calls[c].ctx = "ok"
        /\ agent.weather_service
        /\ calls[c].result = ErrorResult(Message("", "Days must be between 1 and 5", ""))
        /\ sessions = << >>

(* C4: on a 404 answer either entry point returns the location error that   *)
(* carries the input location; another non-200 status with a JSON body      *)
(* gives the generic upstream error with the provider's message, or         *)
(* 'Unknown error'; a transport failure gives the network error; and no     *)
(* outcome other than a 404 gives the result a 404 gives.                   *)
LocationNotFoundResult(location) ==
    ErrorResult(Message("Location error", "Location not found", location))

Is404(up) == up.kind = "response" /\ up.status = 404

C4_NotFoundDistinct ==
    \A c \in Slots :
        (calls[c].pc = "returned" /\ Answered(c)) =>
            LET up == calls[c].upstream
                result == calls[c].result
            IN  /\ Is404(up) => result = LocationNotFoundResult(calls[c].location)
                /\ ~Is404(up) =>
                     /\ result.status = "error" =>
                          result.message # LocationNotFoundResult(calls[c].location).message
                     /\ result.status = "success" \/ result.status = "error"
                /\ (up.kind = "response" /\ up.status \notin {200, 404} /\ up.body = "json") =>
                     result = ErrorResult(Message("Weather service error", "Weather API error",
                                IF up.has_message THEN up.message ELSE "Unknown error"))
                /\ up.kind = "client_error" =>
                     result = ErrorResult(Message("Weather service error", "Network error",
                                                  up.message))

C4_Witness ==
    \E c \in Slots :
        /\ calls[c].pc = "returned"
        /\ calls[c].tool = "forecast"
        /\ calls[c].location = "Nowhereville"
        /\ Is404(calls[c].upstream)
        /\ calls[c].result.message.arg = "Nowhereville"

(* C5: while overlapping current and forecast calls run on one service      *)
(* (before close() is called on it), at most one session has been created,  *)
(* at most one call in flight created one, and every call in flight holds   *)
(* the service's session; and at any time every session but the service's   *)
(* current one is closed: none was overwritten while open.                  *)
InFlight == {c \in Slots : calls[c].pc = "awaiting"}

C5_SingleSession ==
    /\ \A i \in 1..Len(sessions) : i # session => sessions[i]
    /\ closeLog = << >> =>
         /\ Len(sessions) <= 1
         /\ Cardinality({c \in InFlight : calls[c].created}) <= 1
         /\ \A c \in InFlight : calls[c].session # 0 /\ calls[c].session = session

C5_Witness ==
    /\ closeLog = << >>
    /\ Cardinality(InFlight) >= 2
    /\ Cardinality({c \in InFlight : calls[c].created}) = 1
    /\ {calls[c].tool : c \in InFlight} = {"current", "forecast"}
    /\ \A c \in InFlight : calls[c].session = 1
    /\ sessions = <<FALSE>>

(* C6: close() never raises and leaves the service without an open         *)
(* session; a close() on a service with no open session (never opened, or  *)
(* closed by the call before) changes nothing of the service.               *)
C6_CloseIdempotent ==
    [][Len(closeLog') = Len(closeLog) + 1 =>
          /\ ~closeRaised'
          /\ ~SessionOpen'
          /\ ~SessionOpen => (session' = session /\ sessions' = sessions)]_vars

C6_Witness ==
    /\ ~closeRaised
    /\ ~SessionOpen
    /\ \E i \in 1..(Len(closeLog) - 1) :
          /\ closeLog[i].open
          /\ ~closeLog[i + 1].open
          /\ closeLog[i + 1].created = closeLog[i].created

(* C7: with save_to_file set, a fetch that succeeded and an artifact save  *)
(* that failed, the entry point returns status "success" with the fetched   *)
(* location, summary and data, and an artifact entry of status "error".     *)
SaveFailed(c) == calls[c].save \in {"raised", "status_error"}

C7_SaveFailureIsolated ==
    \A c \in Slots :
        (calls[c].pc = "returned" /\ calls[c].save_to_file /\ SaveFailed(c)) =>
            /\ ~Fetched(c).raised
            /\ calls[c].result.status = "success"
            /\ calls[c].result.data = Fetched(c).data
            /\ calls[c].result.location = Fetched(c).data.location
            /\ calls[c].result.summary = Summary(calls[c].tool, Fetched(c).data)
            /\ calls[c].result.artifact.status = "error"

C7_Witness ==
    \E c \in Slots :
        /\ calls[c].pc = "returned"
        /\ calls[c].save_to_file
        /\ calls[c].save = "raised"
        /\ calls[c].result.status = "success"
        /\ calls[c].result.artifact.status = "error"

(* C8: an invocation issues at most one request to the weather API and at  *)
(* most one artifact write, the write only after a successful fetch with    *)
(* save_to_file set; once the fetch has failed the invocation has returned  *)
(* the error, with that one request and no write.                           *)
C8_AtMostOneRequest ==
    \A c \in Slots :
        /\ calls[c].requests <= 1
        /\ calls[c].writes <= 1
        /\ calls[c].writes = 1 =>
             (calls[c].save_to_file /\ Answered(c) /\ ~Fetched(c).raised)
        /\ (Answered(c) /\ Fetched(c).raised) =>
             /\ calls[c].pc = "returned"
             /\ calls[c].result = HandleException(Fetched(c).exc)
             /\ calls[c].requests = 1
             /\ calls[c].writes = 0

C8_Witness ==
    \E c \in Slots :
        /\ calls[c].pc = "returned"
        /\ calls[c].upstream = ClientError
        /\ calls[c].save_to_file
        /\ calls[c].result.status = "error"
        /\ calls[c].requests = 1
        /\ calls[c].writes = 0

(* C11: weather_requests_count is a running counter: from its               *)
(* initialization to 0 on, it equals the number of weather requests the     *)
(* entry points have processed, and the count cleanup_weather_agent reports *)
(* is the number of requests processed by then.                             *)
C11_RunningRequestCount ==
    /\ agent.has_requests_count => agent.weather_requests_count = processed
    /\ \A i \in 1..Len(closeLog) : closeLog[i].request_count = closeLog[i].processed

====
